---- MODULE Spec2Model ----
(***************************************************************************)
(* The anticlustering exchange method of anticlust's C core:               *)
(*   c_anticlustering        (variance objective, k-means criterion)       *)
(*   distance_anticlustering (diversity objective on a distance matrix,    *)
(*                            optional categorical constraints)            *)
(* together with the linked cluster lists, swap, the objective caches and  *)
(* the allocation and release of the call's memory.                        *)
(*                                                                         *)
(* Numbers of type double are modelled as exact rationals: an integer      *)
(* counts units of 1/Scale (feature values, centres) or 1/Scale^2          *)
(* (variance objectives); Scale is divisible by every cluster frequency,   *)
(* so every division the code performs is exact.  Distances are integers.  *)
(***************************************************************************)
EXTENDS Integers, Sequences, FiniteSets, TLC

----------------------------------------------------------------------------
(* Bounds of the model *)

\* largest number N of elements
MaxN == 3
\* largest number K of clusters
MaxK == 2
\* largest number C of categories
MaxC == 2
\* feature values are 0..MaxVal, one feature per element (M = 1)
MaxVal == 2
\* distances are MinDist, 0 and MaxDist
MaxDist == 2
\* number of swap calls followed in SpecSwap
MaxSwaps == 3
\* largest number M of features in SpecDecode
MaxM == 2

\* the distance matrix is symmetric with a zero diagonal; the sign of its
\* entries is not constrained by the interface
MinDist == 0 - 1

----------------------------------------------------------------------------
(* Values of the C program *)

\* the null pointer
NULL == -1
\* the content of storage that was declared and never assigned
Uninit == -2
\* the result of 0/0 in compute_center for a cluster with frequency 0
NaN == -999

\* the address of the HEAD node of cluster c; the list node created for the
\* i'th element has address i
HeadNode(c) == 100 + c

RECURSIVE Factorial(_)
Factorial(n) == IF n <= 1 THEN 1 ELSE n * Factorial(n - 1)

RECURSIVE SumSeq(_)
SumSeq(s) == IF s = <<>> THEN 0 ELSE Head(s) + SumSeq(Tail(s))

RECURSIVE SumFn(_, _)
\* f[0] + ... + f[n-1]
SumFn(f, n) == IF n = 0 THEN 0 ELSE SumFn(f, n - 1) + f[n - 1]

\* double / int
DblDiv(a, f) == IF f = 0 THEN NaN ELSE a \div f

----------------------------------------------------------------------------
(* The membership index: POINTS (array of struct element), the nodes of    *)
(* the cluster lists (struct node: data, next), PTR_NODES.  A pointer to   *)
(* an element is its index in POINTS.                                      *)

RECURSIVE Chain(_, _)
\* the nodes reached from node p by following next, p included
Chain(nd, p) == IF p = NULL THEN <<>> ELSE <<p>> \o Chain(nd, nd[p].next)

\* the nodes visited by `tmp = start->next; while (tmp != NULL) ... tmp = tmp->next`
After(nd, start) == Chain(nd, nd[start].next)

\* swap with the second assignment to one->data->ID left out: the element of
\* node one takes the ID of the other
swap_exchanging_ids(st, i, j) ==
  LET one == st.PTR_NODES[i]
      two == st.PTR_NODES[j]
      e1 == st.nodes[one].data
      e2 == st.nodes[two].data
      cl1 == st.POINTS[e1].cluster
      cl2 == st.POINTS[e2].cluster
      ID1 == st.POINTS[e1].ID
      ID2 == st.POINTS[e2].ID
      PN1 == [st.PTR_NODES EXCEPT ![ID1] = two]
      PN2 == [PN1 EXCEPT ![ID2] = one]
      P1 == [st.POINTS EXCEPT ![e1].ID = ID2]
      P3 == [P1 EXCEPT ![e1].cluster = cl2]
      P4 == [P3 EXCEPT ![e2].cluster = cl1]
      n1 == [st.nodes EXCEPT ![one].data = st.nodes[two].data]
      n2 == [n1 EXCEPT ![two].data = e1]
  IN [POINTS |-> P4, nodes |-> n2, PTR_NODES |-> PN2]

\* swap with `two->data->cluster = cl1` left out: only one of the two
\* elements changes its cluster
swap_one_way(st, i, j) ==
  LET one == st.PTR_NODES[i]
      two == st.PTR_NODES[j]
      e1 == st.nodes[one].data
      e2 == st.nodes[two].data
      cl2 == st.POINTS[e2].cluster
      PN1 == [st.PTR_NODES EXCEPT ![st.POINTS[e1].ID] = two]
      PN2 == [PN1 EXCEPT ![st.POINTS[e2].ID] = one]
      P3 == [st.POINTS EXCEPT ![e1].cluster = cl2]
      n1 == [st.nodes EXCEPT ![one].data = st.nodes[two].data]
      n2 == [n1 EXCEPT ![two].data = e1]
  IN [POINTS |-> P3, nodes |-> n2, PTR_NODES |-> PN2]

\* void swap(size_t n, size_t i, size_t j, struct node *PTR_NODES[n]),
\* statement by statement; st is [POINTS, nodes, PTR_NODES]
swap(st, i, j) ==
  LET one == st.PTR_NODES[i]
      two == st.PTR_NODES[j]
      e1 == st.nodes[one].data
      e2 == st.nodes[two].data
      cl1 == st.POINTS[e1].cluster
      cl2 == st.POINTS[e2].cluster
      ID1 == st.POINTS[e1].ID
      ID2 == st.POINTS[e2].ID
      \* PTR_NODES[ID1] = two; PTR_NODES[ID2] = one;
      PN1 == [st.PTR_NODES EXCEPT ![ID1] = two]
      PN2 == [PN1 EXCEPT ![ID2] = one]
      \* one->data->ID = ID2; one->data->ID = ID1;
      P1 == [st.POINTS EXCEPT ![e1].ID = ID2]
      P2 == [P1 EXCEPT ![e1].ID = ID1]
      \* one->data->cluster = cl2; two->data->cluster = cl1;
      P3 == [P2 EXCEPT ![e1].cluster = cl2]
      P4 == [P3 EXCEPT ![e2].cluster = cl1]
      \* tmp = one->data; one->data = two->data; two->data = tmp;
      tmp == e1
      n1 == [st.nodes EXCEPT ![one].data = st.nodes[two].data]
      n2 == [n1 EXCEPT ![two].data = tmp]
  IN [POINTS |-> P4, nodes |-> n2, PTR_NODES |-> PN2]

----------------------------------------------------------------------------
(* Diversity objective *)

\* double distances_one_element(n, distances, start_node, ID)
distances_one_element(st, D, start_node, ID) ==
  SumSeq([x \in 1..Len(After(st.nodes, start_node)) |->
            D[ID][st.POINTS[st.nodes[After(st.nodes, start_node)[x]].data].ID]])

\* double distances_within(n, distances, HEAD)
distances_within(st, D, HEAD) ==
  SumSeq([x \in 1..Len(After(st.nodes, HEAD)) |->
            LET current == After(st.nodes, HEAD)[x]
            IN distances_one_element(st, D, current,
                                     st.POINTS[st.nodes[current].data].ID)])

\* void distance_objective(n, k, distances, OBJ_BY_CLUSTER, HEADS)
distance_objective(st, k, D, heads) ==
  [c \in 0..(k - 1) |-> distances_within(st, D, heads[c])]

\* double array_sum(size_t k, double ARRAY[k])
array_sum(k, ARRAY) == SumFn(ARRAY, k)

----------------------------------------------------------------------------
(* Variance objective *)

\* double euclidean_squared(double *x, double *y, size_t m)
euclidean_squared(x, y, m) ==
  SumFn([f \in 0..(m - 1) |-> (x[f] - y[f]) * (x[f] - y[f])], m)

\* double cluster_variance(size_t m, struct node *HEAD, double center[m])
cluster_variance(st, m, HEAD, center) ==
  SumSeq([x \in 1..Len(After(st.nodes, HEAD)) |->
            euclidean_squared(center,
                st.POINTS[st.nodes[After(st.nodes, HEAD)[x]].data].values, m)])

\* void compute_center(size_t m, double center[m], struct node *HEAD, int frequency)
compute_center(st, m, HEAD, frequency) ==
  [f \in 0..(m - 1) |->
     DblDiv(SumSeq([x \in 1..Len(After(st.nodes, HEAD)) |->
               st.POINTS[st.nodes[After(st.nodes, HEAD)[x]].data].values[f]]),
            frequency)]

\* void objective_by_cluster(m, k, VAR_OBJECTIVE, CENTERS, PTR_CLUSTER_HEADS)
objective_by_cluster(st, m, k, centers, heads) ==
  [c \in 0..(k - 1) |-> cluster_variance(st, m, heads[c], centers[c])]

\* update_centers without the division by the cluster frequencies
update_centers_unweighted(m, centers, st, one, two, frequencies) ==
  LET e1 == st.nodes[one].data
      e2 == st.nodes[two].data
      cl1 == st.POINTS[e1].cluster
      cl2 == st.POINTS[e2].cluster
  IN [c \in DOMAIN centers |->
        [f \in 0..(m - 1) |->
           IF c = cl1
             THEN centers[c][f] + st.POINTS[e2].values[f] - st.POINTS[e1].values[f]
             ELSE IF c = cl2
               THEN centers[c][f] - st.POINTS[e2].values[f] + st.POINTS[e1].values[f]
               ELSE centers[c][f]]]

\* void update_centers(k, m, CENTERS, one, two, frequencies); called with
\* one and two in different clusters
update_centers(m, centers, st, one, two, frequencies) ==
  LET e1 == st.nodes[one].data
      e2 == st.nodes[two].data
      cl1 == st.POINTS[e1].cluster
      cl2 == st.POINTS[e2].cluster
      change_cl1(f) == DblDiv(st.POINTS[e1].values[f], frequencies[cl1])
      change_cl2(f) == DblDiv(st.POINTS[e2].values[f], frequencies[cl2])
  IN [c \in DOMAIN centers |->
        [f \in 0..(m - 1) |->
           IF c = cl1
             THEN (centers[c][f] + change_cl2(f)) - change_cl1(f)
             ELSE IF c = cl2
               THEN (centers[c][f] - change_cl2(f)) + change_cl1(f)
               ELSE centers[c][f]]]

\* void update_objective_by_cluster(k, m, CENTERS, cl1, cl2, head_array, OBJECTIVE_BY_CLUSTER)
update_objective_by_cluster(st, m, centers, cl1, cl2, heads, objs) ==
  LET o1 == [objs EXCEPT ![cl1] = cluster_variance(st, m, heads[cl1], centers[cl1])]
  IN [o1 EXCEPT ![cl2] = cluster_variance(st, m, heads[cl2], centers[cl2])]

----------------------------------------------------------------------------
(* State *)

VARIABLES
  variant,          \* "variance": c_anticlustering; "diversity": distance_anticlustering
  input,            \* the caller's buffers as they were when the call was made
  caller,           \* the caller's buffers: data, N, M, K, frequencies, clusters,
                    \* USE_CATS, C, CAT_frequencies, categories
  failAt,           \* which call of malloc returns NULL (0: none)
  nmalloc,          \* calls of malloc made so far
  heap,             \* live: allocated blocks not yet freed; released: freed blocks;
                    \* sizes: the size asked of malloc for each node;
                    \* events: erroneous uses of pointers
  pc,               \* position in the entry point
  idx,              \* loop counter of the set-up loops
  i,                \* outer loop counter
  u,                \* inner loop counter
  cl1,              \* cluster of element i at the start of its iteration
  POINTS,           \* struct element POINTS[n]
  nodes,            \* the allocated struct node's, by address
  HEADS,            \* struct node *HEADS[k] (PTR_CLUSTER_HEADS)
  PTR_NODES,        \* struct node *PTR_NODES[n]
  C_HEADS,          \* size_t *C_HEADS[c]
  distances,        \* double *distances[n]
  offsets,          \* int m_ptr[m] (fill_data_points) / int offsets[n]
  CENTERS,          \* double CENTERS[k][m]
  OBJ_BY_CLUSTER,   \* OBJ_BY_CLUSTER[k] / OBJECTIVE_BY_CLUSTER[k]
  SUM_OBJECTIVE,    \* SUM_OBJECTIVE / SUM_VAR_OBJECTIVE
  best_partner, best_obj, best_objs, best_centers,
  tmp_obj, tmp_objs, tmp_centers,
  log,              \* the committed swaps: element, partner, and the objective of the
                    \* partition before and after
  calls,            \* SpecSwap: number of swap calls made
  trail,            \* SpecSwap: the last two swap calls and the states before them
  start,            \* the live state when the current outer iteration began
  last              \* the latest call of swap made by the exchange loop

callVars == <<variant, input, failAt>>
memVars  == <<POINTS, nodes, HEADS, PTR_NODES>>
tabVars  == <<C_HEADS, distances, offsets>>
objVars  == <<CENTERS, OBJ_BY_CLUSTER, SUM_OBJECTIVE>>
bestVars == <<best_partner, best_obj, best_objs, best_centers>>
tmpVars  == <<tmp_obj, tmp_objs, tmp_centers>>
loopVars == <<i, u, cl1>>
swapVars == <<log, calls, trail, start, last>>
vars == <<callVars, caller, nmalloc, heap, pc, idx, loopVars, memVars, tabVars,
          objVars, bestVars, tmpVars, swapVars>>

\* the membership index as the argument of swap and of the objective functions
Mem == [POINTS |-> POINTS, nodes |-> nodes, PTR_NODES |-> PTR_NODES]

n == caller.N
k == caller.K
m == caller.M

----------------------------------------------------------------------------
(* malloc and free *)

ValuesBlock(e) == 200 + e
CatBlock(c) == 300 + c
RowBlock(r) == 400 + r

\* whether the next call of malloc returns NULL
MallocFails == failAt = nmalloc + 1

Allocate(h, b) == [h EXCEPT !.live = @ \cup {b}]

\* sizeof(struct node*), the unit of the sizes of nodes
sizeof_node_pointer == 1

\* the size of a node: `data` and `next`, the two pointers written into
\* every node after its allocation
sizeof_node == 2 * sizeof_node_pointer

\* p = malloc(size) for the node p
AllocateNode(h, p, size) == [Allocate(h, p) EXCEPT !.sizes = @ @@ (p :> size)]

\* free(p)
FreeBlock(h, p) ==
  IF p = NULL THEN [h EXCEPT !.events = @ \cup {"free_null"}]
  ELSE IF p = Uninit THEN [h EXCEPT !.events = @ \cup {"free_uninit"}]
  ELSE IF p \in h.live
    THEN [h EXCEPT !.live = @ \ {p}, !.released = @ \cup {p}]
    ELSE [h EXCEPT !.events = @ \cup {"double_free"}]

RECURSIVE FreeAll(_, _)
\* free(s[1]); ...; free(s[Len(s)])
FreeAll(h, s) == IF s = <<>> THEN h ELSE FreeAll(FreeBlock(h, Head(s)), Tail(s))

\* void free_points(size_t n, struct element POINTS[n]): frees the values of
\* all n elements, whether or not they were assigned
free_points(h, nn, P) == FreeAll(h, [x \in 1..nn |-> P[x - 1].vblock])

\* free_points(n, POINTS, n) as distance_anticlustering calls it: frees the
\* values of the first `upto` elements
free_points_upto(h, nn, P, upto) == FreeAll(h, [x \in 1..upto |-> P[x - 1].vblock])

RECURSIVE free_nodes_from(_, _, _, _, _)
\* void free_nodes(size_t k, struct node *PTR_CLUSTER_HEADS[k]), clusters c..kk-1;
\* reading ->next of a null or unassigned head ends the run
free_nodes_from(h, kk, nd, heads, c) ==
  IF c >= kk THEN h
  ELSE IF heads[c] = NULL THEN [h EXCEPT !.events = @ \cup {"null_deref"}]
  ELSE IF heads[c] = Uninit THEN [h EXCEPT !.events = @ \cup {"uninit_deref"}]
  ELSE free_nodes_from(FreeAll(h, Chain(nd, heads[c])), kk, nd, heads, c + 1)

free_nodes(h, kk, nd, heads) == free_nodes_from(h, kk, nd, heads, 0)

\* how a call ends after its clean-up: a dereferenced null or unassigned
\* pointer ends the process; free of an unassigned pointer may end it or not
Endings(h) ==
  IF h.events \cap {"null_deref", "uninit_deref"} # {} THEN {"aborted"}
  ELSE IF "free_uninit" \in h.events THEN {"aborted", "returned"}
  ELSE {"returned"}

----------------------------------------------------------------------------
(* The calls the model makes: the caller's buffers *)

Count(f, v) == Cardinality({x \in DOMAIN f : f[x] = v})

\* the cluster labels of nn elements in kk clusters, one labelling for each
\* partition (the clusters are numbered in the order of their first
\* elements; clusters beyond those used are empty)
Labelings(nn, kk) ==
  {cl \in [0..(nn - 1) -> 0..(kk - 1)] :
     \A e \in 0..(nn - 1) : cl[e] = 0 \/ \E d \in 0..(e - 1) : cl[d] = cl[e] - 1}

\* symmetric nn x nn matrices with zero diagonal and entries in vals
Pairs(nn) == {p \in (0..(nn - 1)) \X (0..(nn - 1)) : p[1] < p[2]}
Matrices(nn, vals) ==
  {[r \in 0..(nn - 1) |-> [c \in 0..(nn - 1) |->
      IF r = c THEN 0 ELSE IF r < c THEN t[<<r, c>>] ELSE t[<<c, r>>]]] :
   t \in [Pairs(nn) -> vals]}

\* a matrix as the column-major vector the caller passes
ColumnMajor(D, nrows, ncols) ==
  [x \in 0..(nrows * ncols - 1) |-> D[x % nrows][x \div nrows]]

EmptyArray == [x \in {} |-> 0]

Frequencies(cl, kk) == [c \in 0..(kk - 1) |-> Count(cl, c)]

\* the unit of centres and feature values is 1/Scale(N)
Scale(nn) == Factorial(nn)

\* c_anticlustering(data, N, M, K, frequencies, clusters) with one feature
VarianceCall(nn, kk, cl, d) ==
  [N |-> nn, M |-> 1, K |-> kk, USE_CATS |-> 0, C |-> 0,
   data |-> [x \in 0..(nn - 1) |-> Scale(nn) * d[x]],
   frequencies |-> Frequencies(cl, kk), clusters |-> cl,
   CAT_frequencies |-> EmptyArray, categories |-> EmptyArray]

VarianceCalls(vals) ==
  UNION {{VarianceCall(nn, kk, cl, d) :
            cl \in Labelings(nn, kk), d \in [0..(nn - 1) -> vals]} :
         nn \in 1..MaxN, kk \in 1..MaxK}

\* with USE_CATS = 0 the caller's C, CAT_frequencies and categories are read
\* by no step of the computation; the buffers passed are C ints summing to N
\* and N category labels: element 0 in category 0, the others in category 1
NoCategories(nn) ==
  {[USE_CATS |-> 0, C |-> IF nn = 1 THEN 1 ELSE 2,
    CAT_frequencies |-> IF nn = 1 THEN [c \in {0} |-> 1]
                                  ELSE [c \in {0, 1} |-> IF c = 0 THEN 1 ELSE nn - 1],
    categories |-> [e \in 0..(nn - 1) |-> IF e = 0 THEN 0 ELSE 1]]}

\* categories 0..cc-1, numbered in the order of their first elements
Categories(nn) ==
  UNION {{[USE_CATS |-> 1, C |-> cc, CAT_frequencies |-> Frequencies(cat, cc),
           categories |-> cat] : cat \in Labelings(nn, cc)} :
         cc \in 1..MaxC}

\* distance_anticlustering(data, N, K, frequencies, clusters, USE_CATS, C,
\* CAT_frequencies, categories)
DiversityCall(nn, kk, cl, D, ca) ==
  [N |-> nn, M |-> 0, K |-> kk, USE_CATS |-> ca.USE_CATS, C |-> ca.C,
   data |-> ColumnMajor(D, nn, nn),
   frequencies |-> Frequencies(cl, kk), clusters |-> cl,
   CAT_frequencies |-> ca.CAT_frequencies, categories |-> ca.categories]

DiversityCalls(vals, withCategories) ==
  UNION {{DiversityCall(nn, kk, cl, D, ca) :
            cl \in Labelings(nn, kk), D \in Matrices(nn, vals),
            ca \in IF withCategories THEN Categories(nn) ELSE NoCategories(nn)} :
         nn \in 1..MaxN, kk \in 1..MaxK}

\* the values of features, and of distances
FeatureValues == 0..MaxVal
DistanceValues == {MinDist, 0, MaxDist}

\* struct element with no field assigned
UnassignedElement ==
  [ID |-> Uninit, cluster |-> Uninit, category |-> Uninit, vblock |-> Uninit,
   values |-> EmptyArray]

\* the state on entry to c_anticlustering ("variance") or
\* distance_anticlustering ("diversity") called with buffers b
Entry(v, b, fa) ==
  /\ variant = v
  /\ input = b
  /\ caller = b
  /\ failAt = fa
  /\ nmalloc = 0
  /\ heap = [live |-> {}, released |-> {}, events |-> {}, sizes |-> <<>>]
  /\ pc = IF v = "variance" THEN "fill_data_points" ELSE "points"
  /\ idx = 0
  /\ i = 0
  /\ u = 0
  /\ cl1 = Uninit
  /\ POINTS = [e \in 0..(b.N - 1) |-> UnassignedElement]
  /\ nodes = EmptyArray
  /\ HEADS = [c \in 0..(b.K - 1) |-> Uninit]
  /\ PTR_NODES = [e \in 0..(b.N - 1) |-> Uninit]
  /\ C_HEADS = EmptyArray
  /\ distances = EmptyArray
  /\ offsets = EmptyArray
  /\ CENTERS = EmptyArray
  /\ OBJ_BY_CLUSTER = EmptyArray
  /\ SUM_OBJECTIVE = Uninit
  /\ best_partner = Uninit
  /\ best_obj = Uninit
  /\ best_objs = EmptyArray
  /\ best_centers = EmptyArray
  /\ tmp_obj = Uninit
  /\ tmp_objs = EmptyArray
  /\ tmp_centers = EmptyArray
  /\ log = <<>>
  /\ calls = 0
  /\ trail = <<>>
  /\ start = <<>>
  /\ last = <<>>

\* calls of both entry points, without categories, in which every malloc
\* succeeds
Init ==
  \/ \E b \in VarianceCalls(FeatureValues) : Entry("variance", b, 0)
  \/ \E b \in DiversityCalls(DistanceValues, FALSE) : Entry("diversity", b, 0)

\* calls of distance_anticlustering with categories, in which every malloc
\* succeeds
InitCats ==
  \E b \in DiversityCalls({MinDist, MaxDist}, TRUE) : Entry("diversity", b, 0)

----------------------------------------------------------------------------
(* Calls with given arguments *)

\* the C array with the elements of the sequence s
Array(s) == [x \in 0..(Len(s) - 1) |-> s[x + 1]]

\* the matrix of the distances |p[r] - p[c]| of points p on a line
LineDistances(p) ==
  [r \in DOMAIN p |-> [c \in DOMAIN p |->
     IF p[r] >= p[c] THEN p[r] - p[c] ELSE p[c] - p[r]]]

\* distance_anticlustering for the points 0, 10, 11, 21 on a line, N = 4,
\* K = 2, clusters = [0,0,1,1], without categories
DiversityOnFourPoints ==
  DiversityCall(4, 2, Array(<<0, 0, 1, 1>>), LineDistances(Array(<<0, 10, 11, 21>>)),
                CHOOSE ca \in NoCategories(4) : TRUE)

\* c_anticlustering for the features 0, 1, 2, 3, 4, 5, N = 6, M = 1, K = 2,
\* clusters = [0,0,0,1,1,1]
VarianceOnALine ==
  VarianceCall(6, 2, Array(<<0, 0, 0, 1, 1, 1>>), Array(<<0, 1, 2, 3, 4, 5>>))

\* distance_anticlustering with categories [A,A,B,B,C,C] (0, 0, 1, 1, 2, 2),
\* N = 6, K = 2, clusters = [0,0,0,1,1,1] and the distance matrix D
CategoryCall(D) ==
  DiversityCall(6, 2, Array(<<0, 0, 0, 1, 1, 1>>), D,
                [USE_CATS |-> 1, C |-> 3, CAT_frequencies |-> Array(<<2, 2, 2>>),
                 categories |-> Array(<<0, 0, 1, 1, 2, 2>>)])

\* distance matrices without negative entries for six elements: the
\* distances of six points at 0..MaxDist on a line, and the matrices that
\* are 0 or MaxDist between an element of category B and one of another
\* category, and 0 elsewhere
CategoryMatrices ==
  {LineDistances(p) : p \in [0..5 -> 0..MaxDist]} \cup
  {[r \in 0..5 |-> [c \in 0..5 |->
      IF r \in {2, 3} /\ c \notin {2, 3} THEN t[<<r, c>>]
      ELSE IF c \in {2, 3} /\ r \notin {2, 3} THEN t[<<c, r>>]
      ELSE 0]] :
   t \in [{2, 3} \X {0, 1, 4, 5} -> {0, MaxDist}]}

InitCategoryScenario == \E D \in CategoryMatrices : Entry("diversity", CategoryCall(D), 0)

\* c_anticlustering(data, N, M, K, frequencies, clusters) for the N x M
\* matrix X of features
FeatureCall(nn, mm, kk, cl, X) ==
  [N |-> nn, M |-> mm, K |-> kk, USE_CATS |-> 0, C |-> 0,
   data |-> ColumnMajor([r \in 0..(nn - 1) |-> [c \in 0..(mm - 1) |-> Scale(nn) * X[r][c]]],
                        nn, mm),
   frequencies |-> Frequencies(cl, kk), clusters |-> cl,
   CAT_frequencies |-> EmptyArray, categories |-> EmptyArray]

\* calls whose data are pairwise different, so that every entry of `data`
\* is known by its value: feature c of element r is c * N + r, and the
\* distance of r and c > r is 1 + r * N + c
InitDecode ==
  \/ \E nn \in 1..MaxN, mm \in 1..MaxM, kk \in 1..MaxK :
       \E cl \in Labelings(nn, kk) :
         Entry("variance",
               FeatureCall(nn, mm, kk, cl,
                           [r \in 0..(nn - 1) |-> [c \in 0..(mm - 1) |-> c * nn + r]]), 0)
  \/ \E nn \in 1..MaxN, kk \in 1..MaxK :
       \E cl \in Labelings(nn, kk) :
         Entry("diversity",
               DiversityCall(nn, kk, cl,
                             [r \in 0..(nn - 1) |-> [c \in 0..(nn - 1) |->
                                IF r = c THEN 0
                                ELSE IF r < c THEN 1 + r * nn + c ELSE 1 + c * nn + r]],
                             CHOOSE ca \in NoCategories(nn) : TRUE), 0)

InitScenarios ==
  \/ Entry("diversity", DiversityOnFourPoints, 0)
  \/ Entry("variance", VarianceOnALine, 0)

----------------------------------------------------------------------------
(* c_anticlustering: set-up *)

\* the position after the last iteration of a set-up loop of `count` rounds
Advance(count, next) ==
  /\ idx' = IF idx + 1 < count THEN idx + 1 ELSE 0
  /\ pc' = IF idx + 1 < count THEN pc ELSE next

\* int fill_data_points(data, n, m, POINTS, clusters), one element per step,
\* and `if (fill_data_points(...) == 1) return;` of c_anticlustering
fill_data_points ==
  /\ pc = "fill_data_points"
  /\ nmalloc' = nmalloc + 1
  /\ LET m_ptr == IF idx = 0 THEN [j \in 0..(m - 1) |-> j * n] ELSE offsets
         P1 == [POINTS EXCEPT ![idx].cluster = caller.clusters[idx], ![idx].ID = idx]
     IN IF MallocFails
          THEN LET P2 == [P1 EXCEPT ![idx].vblock = NULL]
                   h == free_points(heap, n, P2)
               IN /\ POINTS' = P2
                  /\ heap' = h
                  /\ pc' \in Endings(h)
                  /\ offsets' = m_ptr
                  /\ idx' = idx
          ELSE /\ POINTS' = [P1 EXCEPT ![idx].vblock = ValuesBlock(idx),
                                       ![idx].values = [j \in 0..(m - 1) |-> caller.data[m_ptr[j]]]]
               /\ offsets' = [j \in 0..(m - 1) |-> m_ptr[j] + 1]
               /\ heap' = Allocate(heap, ValuesBlock(idx))
               /\ Advance(n, "initialize_cluster_heads")
  /\ UNCHANGED <<callVars, caller, loopVars, nodes, HEADS, PTR_NODES, C_HEADS, distances,
                 objVars, bestVars, tmpVars, swapVars>>

\* int initialize_cluster_heads(n, k, PTR_CLUSTER_HEADS, POINTS), one head per
\* step, and `if (initialize_cluster_heads(...) == 1) return;`
initialize_cluster_heads ==
  /\ pc = "initialize_cluster_heads"
  /\ variant = "variance"
  /\ nmalloc' = nmalloc + 1
  /\ IF MallocFails
       THEN LET H1 == [HEADS EXCEPT ![idx] = NULL]
                h == free_nodes(free_points(heap, n, POINTS), k, nodes, H1)
            IN /\ HEADS' = H1
               /\ heap' = h
               /\ pc' \in Endings(h)
               /\ idx' = idx
               /\ nodes' = nodes
       ELSE /\ HEADS' = [HEADS EXCEPT ![idx] = HeadNode(idx)]
            /\ nodes' = nodes @@ (HeadNode(idx) :> [data |-> NULL, next |-> NULL])
            /\ heap' = AllocateNode(heap, HeadNode(idx), sizeof_node_pointer)
            /\ Advance(k, "fill_cluster_lists")
  /\ UNCHANGED <<callVars, caller, loopVars, POINTS, PTR_NODES, tabVars,
                 objVars, bestVars, tmpVars, swapVars>>

\* int fill_cluster_lists(n, k, clusters, POINTS, PTR_NODES, PTR_CLUSTER_HEADS)
\* with append_element_to_cluster, one element per step, and
\* `if (fill_cluster_lists(...) == 1) return;` of both entry points
fill_cluster_lists ==
  /\ pc = "fill_cluster_lists"
  /\ nmalloc' = nmalloc + 1
  /\ LET HEAD == HEADS[caller.clusters[idx]]
         tmp == nodes[HEAD].next
     IN IF MallocFails
          THEN LET nd == [nodes EXCEPT ![HEAD].next = NULL]
                   h == free_nodes(free_points(heap, n, POINTS), k, nd, HEADS)
               IN /\ nodes' = nd
                  /\ PTR_NODES' = [PTR_NODES EXCEPT ![idx] = NULL]
                  /\ heap' = h
                  /\ pc' \in Endings(h)
                  /\ idx' = idx
          ELSE /\ nodes' = [nodes EXCEPT ![HEAD].next = idx] @@
                             (idx :> [data |-> idx, next |-> tmp])
               /\ PTR_NODES' = [PTR_NODES EXCEPT ![idx] = idx]
               /\ heap' = AllocateNode(heap, idx, sizeof_node_pointer)
               /\ Advance(n, IF variant = "variance" THEN "init_objective" ELSE "rows")
  /\ UNCHANGED <<callVars, caller, loopVars, POINTS, HEADS, tabVars,
                 objVars, bestVars, tmpVars, swapVars>>

\* CENTERS, OBJECTIVE_BY_CLUSTER and SUM_VAR_OBJECTIVE of the initial assignment
init_variance_objective ==
  /\ pc = "init_objective"
  /\ variant = "variance"
  /\ LET centers == [c \in 0..(k - 1) |->
                       compute_center(Mem, m, HEADS[c], caller.frequencies[c])]
         objs == objective_by_cluster(Mem, m, k, centers, HEADS)
     IN /\ CENTERS' = centers
        /\ OBJ_BY_CLUSTER' = objs
        /\ SUM_OBJECTIVE' = array_sum(k, objs)
  /\ pc' = "outer"
  /\ i' = 0
  /\ UNCHANGED <<callVars, caller, nmalloc, heap, idx, u, cl1, memVars, tabVars,
                 bestVars, tmpVars, swapVars>>

----------------------------------------------------------------------------
(* distance_anticlustering: set-up *)

\* the loop that fills POINTS; the result of malloc is not tested
points ==
  /\ pc = "points"
  /\ nmalloc' = nmalloc + 1
  /\ POINTS' = [POINTS EXCEPT
                  ![idx] = [ID |-> idx,
                            cluster |-> caller.clusters[idx],
                            vblock |-> IF MallocFails THEN NULL ELSE ValuesBlock(idx),
                            values |-> EmptyArray,
                            category |-> IF caller.USE_CATS # 0
                                           THEN caller.categories[idx] ELSE 0]]
  /\ heap' = IF MallocFails THEN heap ELSE Allocate(heap, ValuesBlock(idx))
  /\ Advance(n, "categorical")
  /\ UNCHANGED <<callVars, caller, loopVars, nodes, HEADS, PTR_NODES, tabVars,
                 objVars, bestVars, tmpVars, swapVars>>

\* size_t c of distance_anticlustering
NumCategories == IF caller.USE_CATS # 0 THEN caller.C ELSE 1

\* "Deal with categorical restrictions": c, and *CAT_frequencies = n
categorical ==
  /\ pc = "categorical"
  /\ caller' = IF caller.USE_CATS # 0 THEN caller
               ELSE [caller EXCEPT !.CAT_frequencies[0] = n]
  /\ C_HEADS' = [c \in 0..(NumCategories - 1) |-> EmptyArray]
  /\ pc' = "write_cheads"
  /\ idx' = 0
  /\ UNCHANGED <<callVars, nmalloc, heap, loopVars, memVars, distances, offsets,
                 objVars, bestVars, tmpVars, swapVars>>

RECURSIVE IdsOfCategory(_, _, _)
\* the ids e, e+1, ... of category c in increasing order
IdsOfCategory(P, c, e) ==
  IF e \notin DOMAIN P THEN <<>>
  ELSE (IF P[e].category = c THEN <<e>> ELSE <<>>) \o IdsOfCategory(P, c, e + 1)

\* write_cheads(n, c, C_HEADS, USE_CATS, categories, CAT_frequencies, POINTS),
\* one category per step: C_HEADS[c] lists the CAT_frequencies[c] ids of
\* category c in increasing order; and the caller's
\* `print_memory_error(); free_points(n, POINTS, n); return;`
write_cheads ==
  /\ pc = "write_cheads"
  /\ nmalloc' = nmalloc + 1
  /\ IF MallocFails
       THEN LET h == free_points_upto(
                       FreeAll(heap, [x \in 1..idx |-> CatBlock(x - 1)]), n, POINTS, n)
            IN /\ heap' = h
               /\ pc' \in Endings(h)
               /\ idx' = idx
               /\ C_HEADS' = C_HEADS
       ELSE /\ C_HEADS' = [C_HEADS EXCEPT
                             ![idx] = [x \in 0..(caller.CAT_frequencies[idx] - 1) |->
                                         IdsOfCategory(POINTS, idx, 0)[x + 1]]]
            /\ heap' = Allocate(heap, CatBlock(idx))
            /\ Advance(NumCategories, "initialize_cluster_heads")
  /\ UNCHANGED <<callVars, caller, loopVars, memVars, distances, offsets,
                 objVars, bestVars, tmpVars, swapVars>>

\* initialize_cluster_heads(k, HEADS) of distance_anticlustering, one head per
\* step; on failure the heads made so far are released, and the caller's
\* `free_points(n, POINTS, n); return;`
initialize_heads ==
  /\ pc = "initialize_cluster_heads"
  /\ variant = "diversity"
  /\ nmalloc' = nmalloc + 1
  /\ IF MallocFails
       THEN LET H1 == [HEADS EXCEPT ![idx] = NULL]
                h == free_points_upto(
                       FreeAll(heap, [x \in 1..idx |-> HEADS[x - 1]]), n, POINTS, n)
            IN /\ HEADS' = H1
               /\ heap' = h
               /\ pc' \in Endings(h)
               /\ idx' = idx
               /\ nodes' = nodes
       ELSE /\ HEADS' = [HEADS EXCEPT ![idx] = HeadNode(idx)]
            /\ nodes' = nodes @@ (HeadNode(idx) :> [data |-> NULL, next |-> NULL])
            /\ heap' = Allocate(heap, HeadNode(idx))
            /\ Advance(k, "fill_cluster_lists")
  /\ UNCHANGED <<callVars, caller, loopVars, POINTS, PTR_NODES, tabVars,
                 objVars, bestVars, tmpVars, swapVars>>

\* "Allocate memory for distance matrix in C", one row per step; on failure
\* `print_memory_error(); return;`
rows ==
  /\ pc = "rows"
  /\ nmalloc' = nmalloc + 1
  /\ IF MallocFails
       THEN /\ pc' = "returned"
            /\ idx' = idx
            /\ heap' = heap
            /\ distances' = distances
       ELSE /\ distances' = distances @@ (idx :> EmptyArray)
            /\ heap' = Allocate(heap, RowBlock(idx))
            /\ Advance(n, "init_objective")
  /\ UNCHANGED <<callVars, caller, loopVars, memVars, C_HEADS, offsets,
                 objVars, bestVars, tmpVars, swapVars>>

RECURSIVE Restore_fixed_offsets(_, _, _, _)
\* the restoring loop with `data[offsets[j]]` in place of `data[offsets[j]++]`
Restore_fixed_offsets(D, offs, dat, r) ==
  IF r >= Cardinality(DOMAIN offs) THEN <<D, offs>>
  ELSE Restore_fixed_offsets([D EXCEPT ![r] = [j \in DOMAIN offs |-> dat[offs[j]]]],
                             offs, dat, r + 1)

RECURSIVE Restore(_, _, _, _)
\* for (i = r; i < n; i++) for (j = 0; j < n; j++) distances[i][j] = data[offsets[j]++];
\* the result is <<distances, offsets>>
Restore(D, offs, dat, r) ==
  IF r >= Cardinality(DOMAIN offs) THEN <<D, offs>>
  ELSE Restore([D EXCEPT ![r] = [j \in DOMAIN offs |-> dat[offs[j]]]],
               [j \in DOMAIN offs |-> offs[j] + 1], dat, r + 1)

\* column offsets, the distance matrix, OBJ_BY_CLUSTER and SUM_OBJECTIVE of
\* the initial assignment
init_distance_objective ==
  /\ pc = "init_objective"
  /\ variant = "diversity"
  /\ LET r == Restore(distances, [j \in 0..(n - 1) |-> j * n], caller.data, 0)
         objs == distance_objective(Mem, k, r[1], HEADS)
     IN /\ distances' = r[1]
        /\ offsets' = r[2]
        /\ OBJ_BY_CLUSTER' = objs
        /\ SUM_OBJECTIVE' = array_sum(k, objs)
  /\ pc' = "outer"
  /\ i' = 0
  /\ UNCHANGED <<callVars, caller, nmalloc, heap, idx, u, cl1, memVars, C_HEADS,
                 CENTERS, bestVars, tmpVars, swapVars>>

----------------------------------------------------------------------------
(* The objective of a partition, from its labels alone *)

\* the cluster label of every element, as `clusters[i] = PTR_NODES[i]->data->cluster`
Labels(st) == [e \in DOMAIN st.PTR_NODES |-> st.POINTS[st.nodes[st.PTR_NODES[e]].data].cluster]

\* sum over clusters of the pairwise distances within, each unordered pair once
Diversity(lab, D) ==
  LET ps == {p \in (DOMAIN lab) \X (DOMAIN lab) : p[1] < p[2] /\ lab[p[1]] = lab[p[2]]}
      RECURSIVE Total(_)
      Total(S) == IF S = {} THEN 0
                  ELSE LET p == CHOOSE q \in S : TRUE
                       IN D[p[1]][p[2]] + Total(S \ {p})
  IN Total(ps)

RECURSIVE SumOver(_, _)
\* the sum of f over the set S
SumOver(f, S) ==
  IF S = {} THEN 0 ELSE LET x == CHOOSE y \in S : TRUE IN f[x] + SumOver(f, S \ {x})

\* sum over clusters of the squared distances of the members to their mean;
\* x[e] is the vector of features of element e
Variance(lab, x, mm) ==
  LET members(c) == {e \in DOMAIN lab : lab[e] = c}
      mean(c, f) == SumOver([e \in DOMAIN lab |-> x[e][f]], members(c))
                      \div Cardinality(members(c))
      sq(e) == SumFn([f \in 0..(mm - 1) |->
                        (x[e][f] - mean(lab[e], f)) * (x[e][f] - mean(lab[e], f))], mm)
  IN SumOver([e \in DOMAIN lab |-> sq(e)], DOMAIN lab)

\* the caller's data as a matrix: entry (r, c) at data[c * rows + r]
Matrix(dat, nrows, ncols) ==
  [r \in 0..(nrows - 1) |-> [c \in 0..(ncols - 1) |-> dat[c * nrows + r]]]

\* the objective of the labelling lab for this call's data
Objective(lab) ==
  IF variant = "variance" THEN Variance(lab, Matrix(input.data, input.N, input.M), input.M)
  ELSE Diversity(lab, Matrix(input.data, input.N, input.N))

----------------------------------------------------------------------------
(* The exchange loop of both entry points *)

\* PTR_NODES[e]->data->cluster
ClusterOf(e) == POINTS[nodes[PTR_NODES[e]].data].cluster

\* size_t category_i = PTR_NODES[i]->data->category
category_i == POINTS[nodes[PTR_NODES[i]].data].category

\* the bound of the inner loop: n, or n_partners = CAT_frequencies[category_i]
n_partners == IF variant = "variance" THEN n ELSE caller.CAT_frequencies[category_i]

\* the round number taken for the exchange partner, in both entry points
Partner_not_recoded == u

\* the exchange partner of round u: j = u, or j = C_HEADS[category_i][u]
Partner == IF variant = "variance" THEN u ELSE C_HEADS[category_i][u]

\* what the exchange loop keeps between iterations: labels, lists, handles,
\* and the caches of the objective
Live == <<POINTS, nodes, PTR_NODES, OBJ_BY_CLUSTER, CENTERS, SUM_OBJECTIVE>>

\* the call swap(n, i, j, PTR_NODES) made at the stage `kind` of the
\* iteration of element i, and the lists it is made on
SwapCall(kind, j) == [kind |-> kind, outer |-> i, i |-> i, j |-> j, before |-> Mem]

\* "Initialize `best` variable for the i'th item"
begin_element ==
  /\ pc = "outer"
  /\ i < n
  /\ cl1' = ClusterOf(i)
  /\ best_obj' = 0
  /\ best_centers' = IF variant = "variance" THEN CENTERS ELSE best_centers
  /\ best_objs' = OBJ_BY_CLUSTER
  /\ u' = 0
  /\ pc' = "inner"
  /\ start' = Live
  /\ UNCHANGED <<callVars, caller, nmalloc, heap, idx, i, memVars, tabVars, objVars,
                 best_partner, tmpVars, log, calls, trail, last>>

\* `if (cl1 == cl2) continue;`
skip_partner ==
  /\ pc = "inner"
  /\ u < n_partners
  /\ cl1 = ClusterOf(Partner)
  /\ u' = u + 1
  /\ UNCHANGED <<callVars, caller, nmalloc, heap, pc, idx, i, cl1, memVars, tabVars,
                 objVars, bestVars, tmpVars, swapVars>>

\* the tmp_objs of distance_anticlustering for the exchange of i and j:
\* subtract, swap (st1 is the state after it), add
tmp_objs_diversity(st0, st1, j, cl2) ==
  LET t0 == OBJ_BY_CLUSTER
      t1 == [t0 EXCEPT ![cl1] = @ - distances_one_element(st0, distances, HEADS[cl1], i)]
      t2 == [t1 EXCEPT ![cl2] = @ - distances_one_element(st0, distances, HEADS[cl2], j)]
      t3 == [t2 EXCEPT ![cl1] = @ + distances_one_element(st1, distances, HEADS[cl1], j)]
  IN [t3 EXCEPT ![cl2] = @ + distances_one_element(st1, distances, HEADS[cl2], i)]

\* `if (tmp_obj > best_obj)`, `if (tmp_objective > best_objective)`
improves(new, best) == new > best

\* one exchange partner: the tmp variables, the swap, the objective of the
\* exchange, and the update of the best variables
try_partner ==
  /\ pc = "inner"
  /\ u < n_partners
  /\ cl1 # ClusterOf(Partner)
  /\ LET j == Partner
         cl2 == ClusterOf(j)
         st1 == swap(Mem, i, j)
         centers == IF variant = "variance"
                      THEN update_centers(m, CENTERS, Mem, PTR_NODES[i], PTR_NODES[j],
                                          caller.frequencies)
                      ELSE tmp_centers
         objs == IF variant = "variance"
                   THEN update_objective_by_cluster(st1, m, centers, cl1, cl2, HEADS,
                                                    OBJ_BY_CLUSTER)
                   ELSE tmp_objs_diversity(Mem, st1, j, cl2)
         obj == array_sum(k, objs)
     IN /\ tmp_centers' = centers
        /\ tmp_objs' = objs
        /\ tmp_obj' = obj
        /\ POINTS' = st1.POINTS
        /\ nodes' = st1.nodes
        /\ PTR_NODES' = st1.PTR_NODES
        /\ IF improves(obj, best_obj)
             THEN /\ best_obj' = obj
                  /\ best_centers' = IF variant = "variance" THEN centers ELSE best_centers
                  /\ best_objs' = objs
                  /\ best_partner' = j
             ELSE UNCHANGED bestVars
  /\ last' = SwapCall("tentative", Partner)
  /\ pc' = "undo"
  /\ UNCHANGED <<callVars, caller, nmalloc, heap, idx, loopVars, HEADS, tabVars, objVars,
                 log, calls, trail, start>>

\* "Swap back to test next exchange partner"
undo_swap ==
  /\ pc = "undo"
  /\ LET st1 == swap(Mem, i, Partner)
     IN /\ POINTS' = st1.POINTS
        /\ nodes' = st1.nodes
        /\ PTR_NODES' = st1.PTR_NODES
  /\ last' = SwapCall("undo", Partner)
  /\ u' = u + 1
  /\ pc' = "inner"
  /\ UNCHANGED <<callVars, caller, nmalloc, heap, idx, i, cl1, HEADS, tabVars, objVars,
                 bestVars, tmpVars, log, calls, trail, start>>

\* the values the read of best_partner can give: the partner assigned last,
\* or, when none was ever assigned, any size_t (n stands for all values
\* outside the array)
BestPartnerRead == IF best_partner = Uninit THEN 0..n ELSE {best_partner}

\* the commit test with the comparison reversed
accepts_lower(best, current) == best < current

\* `if (best_obj > SUM_OBJECTIVE)`, `if (best_objective > SUM_VAR_OBJECTIVE)`
accepts(best, current) == best > current

\* "Only if objective is improved: Do the swap"
commit ==
  /\ pc = "inner"
  /\ u >= n_partners
  /\ accepts(best_obj, SUM_OBJECTIVE)
  /\ \E p \in BestPartnerRead :
       /\ last' = SwapCall("commit", p)
       /\ IF p >= n
         THEN /\ pc' = "aborted"
              /\ UNCHANGED <<i, memVars, objVars, log>>
         ELSE LET st1 == swap(Mem, i, p)
              IN /\ POINTS' = st1.POINTS
                 /\ nodes' = st1.nodes
                 /\ PTR_NODES' = st1.PTR_NODES
                 /\ HEADS' = HEADS
                 /\ SUM_OBJECTIVE' = best_obj
                 /\ CENTERS' = IF variant = "variance" THEN best_centers ELSE CENTERS
                 /\ OBJ_BY_CLUSTER' = best_objs
                 /\ log' = Append(log, [element |-> i, partner |-> p,
                                        assigned |-> best_partner # Uninit,
                                        before |-> Objective(Labels(Mem)),
                                        after |-> Objective(Labels(st1))])
                 /\ i' = i + 1
                 /\ pc' = "outer"
  /\ UNCHANGED <<callVars, caller, nmalloc, heap, idx, u, cl1, tabVars, bestVars, tmpVars,
                 calls, trail, start>>

\* the element stays where it is
reject ==
  /\ pc = "inner"
  /\ u >= n_partners
  /\ ~accepts(best_obj, SUM_OBJECTIVE)
  /\ i' = i + 1
  /\ pc' = "outer"
  /\ UNCHANGED <<callVars, caller, nmalloc, heap, idx, u, cl1, memVars, tabVars, objVars,
                 bestVars, tmpVars, swapVars>>

\* "Write output"
write_output ==
  /\ pc = "outer"
  /\ i >= n
  /\ caller' = [caller EXCEPT !.clusters = [e \in 0..(n - 1) |-> ClusterOf(e)]]
  /\ pc' = "free"
  /\ UNCHANGED <<callVars, nmalloc, heap, idx, loopVars, memVars, tabVars, objVars,
                 bestVars, tmpVars, swapVars>>

\* "in the end, free allocated memory": free_points and free_nodes
free_memory ==
  /\ pc = "free"
  /\ LET h == free_nodes(IF variant = "variance" THEN free_points(heap, n, POINTS)
                         ELSE free_points_upto(heap, n, POINTS, n),
                         k, nodes, HEADS)
     IN /\ heap' = h
        /\ pc' \in Endings(h)
  /\ UNCHANGED <<callVars, caller, nmalloc, idx, loopVars, memVars, tabVars, objVars,
                 bestVars, tmpVars, swapVars>>

SetUp ==
  \/ fill_data_points
  \/ initialize_cluster_heads
  \/ fill_cluster_lists
  \/ init_variance_objective
  \/ points
  \/ categorical
  \/ write_cheads
  \/ initialize_heads
  \/ rows
  \/ init_distance_objective

Exchange ==
  \/ begin_element
  \/ skip_partner
  \/ try_partner
  \/ undo_swap
  \/ commit
  \/ reject

Next == SetUp \/ Exchange \/ write_output \/ free_memory

Spec == Init /\ [][Next]_vars

\* the program is sequential: while a statement remains, it is executed
SpecLive == Init /\ [][Next]_vars /\ WF_vars(Next)

SpecScenarios == InitScenarios /\ [][Next]_vars

SpecDecode == InitDecode /\ [][Next]_vars

VarianceNext ==
  \/ fill_data_points
  \/ initialize_cluster_heads
  \/ fill_cluster_lists
  \/ init_variance_objective
  \/ Exchange
  \/ write_output
  \/ free_memory

DiversityNext ==
  \/ points
  \/ categorical
  \/ write_cheads
  \/ initialize_heads
  \/ fill_cluster_lists
  \/ rows
  \/ init_distance_objective
  \/ Exchange
  \/ write_output
  \/ free_memory

SpecCats == InitCats /\ [][DiversityNext]_vars

SpecCategoryScenario == InitCategoryScenario /\ [][DiversityNext]_vars

----------------------------------------------------------------------------
(* Calls in which one malloc fails *)

\* the number of calls of malloc of a call in which none fails
Mallocs(v, b) == IF v = "variance" THEN 2 * b.N + b.K
                 ELSE 3 * b.N + b.K + (IF b.USE_CATS # 0 THEN b.C ELSE 1)

InitOOM ==
  \/ \E b \in VarianceCalls({0, MaxVal}) :
       \E fa \in 0..Mallocs("variance", b) : Entry("variance", b, fa)
  \/ \E b \in DiversityCalls({MinDist, MaxDist}, FALSE) \cup
              DiversityCalls({MinDist, MaxDist}, TRUE) :
       \E fa \in 0..Mallocs("diversity", b) : Entry("diversity", b, fa)

SpecOOM == InitOOM /\ [][Next]_vars

----------------------------------------------------------------------------
(* swap called with any two elements, on the lists as the set-up builds them *)

InitSwap == \E b \in VarianceCalls({0}) : Entry("variance", b, 0)

\* swap(n, a, b, PTR_NODES) for any a and b
swap_call ==
  /\ pc = "init_objective"
  /\ calls < MaxSwaps
  /\ \E a \in 0..(n - 1), b \in 0..(n - 1) :
       LET st1 == swap(Mem, a, b)
           r == [i |-> a, j |-> b, before |-> Mem]
       IN /\ POINTS' = st1.POINTS
          /\ nodes' = st1.nodes
          /\ PTR_NODES' = st1.PTR_NODES
          /\ trail' = IF Len(trail) < 2 THEN Append(trail, r) ELSE <<trail[2], r>>
  /\ calls' = calls + 1
  /\ UNCHANGED <<callVars, caller, nmalloc, heap, pc, idx, loopVars, HEADS, tabVars,
                 objVars, bestVars, tmpVars, log, start, last>>

SwapNext ==
  \/ fill_data_points
  \/ initialize_cluster_heads
  \/ fill_cluster_lists
  \/ swap_call

SpecSwap == InitSwap /\ [][SwapNext]_vars

----------------------------------------------------------------------------
(* Properties *)

\* the labels held by the lists while the loop runs, by `clusters` afterwards
AtLoopBoundary == pc = "outer"
OutputWritten == pc \in {"free", "returned"}

\* C1  Size conservation: at every boundary of the outer loop, and in the
\* output written to `clusters`, the number of elements labelled c is
\* frequencies[c] for every cluster c (and so is the length of the list of c).
SizeConservation ==
  /\ AtLoopBoundary =>
       \A c \in 0..(k - 1) :
         /\ Count(Labels(Mem), c) = caller.frequencies[c]
         /\ Len(After(nodes, HEADS[c])) = caller.frequencies[c]
  /\ OutputWritten =>
       \A c \in 0..(k - 1) : Count(caller.clusters, c) = caller.frequencies[c]

\* a call returned an assignment that differs from its input, after a commit
SizeConservationWitness ==
  /\ pc = "returned"
  /\ Len(log) > 0
  /\ caller.clusters # input.clusters

\* the number of elements of category c with cluster label kc
CatCount(lab, cat, c, kc) == Cardinality({e \in DOMAIN lab : cat[e] = c /\ lab[e] = kc})

\* C2  Category conservation: with use_cats = 1, for every category c and
\* cluster kc the number of elements of category c labelled kc is, after every
\* committed swap and in the output, what it was in the input.
CategoryConservation ==
  /\ (caller.USE_CATS = 1 /\ AtLoopBoundary) =>
       \A c \in 0..(caller.C - 1), kc \in 0..(k - 1) :
         CatCount(Labels(Mem), input.categories, c, kc)
           = CatCount(input.clusters, input.categories, c, kc)
  /\ (caller.USE_CATS = 1 /\ OutputWritten) =>
       \A c \in 0..(caller.C - 1), kc \in 0..(k - 1) :
         CatCount(caller.clusters, input.categories, c, kc)
           = CatCount(input.clusters, input.categories, c, kc)

\* C3  Monotone non-deterioration: the objective of the partition, computed
\* from its labels, is strictly larger after every committed swap than
\* before it, and the objective of the output is not less than that of the
\* input.
MonotoneObjective ==
  /\ \A x \in 1..Len(log) : log[x].after > log[x].before
  /\ OutputWritten => Objective(caller.clusters) >= Objective(input.clusters)

\* the caches as the set-up computes them from the lists
CentersFromLists ==
  [c \in 0..(k - 1) |-> compute_center(Mem, m, HEADS[c], caller.frequencies[c])]
ObjectivesFromLists ==
  IF variant = "variance"
    THEN objective_by_cluster(Mem, m, k, CentersFromLists, HEADS)
    ELSE distance_objective(Mem, k, distances, HEADS)

\* C4  Objective consistency: at every boundary of the outer loop and at
\* return the per-cluster cache (and CENTERS in the variance variant) equals
\* the value computed from the current lists, and the tracked total is the
\* sum of the per-cluster cache.
ObjectiveConsistency ==
  (pc \in {"outer", "free"}) =>
     /\ OBJ_BY_CLUSTER = ObjectivesFromLists
     /\ variant = "variance" => CENTERS = CentersFromLists
     /\ SUM_OBJECTIVE = array_sum(k, OBJ_BY_CLUSTER)

\* the last two calls of swap had the same arguments, two elements that were
\* in different clusters
SwappedTwice ==
  /\ Len(trail) = 2
  /\ trail[1].i = trail[2].i
  /\ trail[1].j = trail[2].j
  /\ Labels(trail[1].before)[trail[1].i] # Labels(trail[1].before)[trail[1].j]

\* C5  Swap reversibility: swap(i, j) followed by swap(i, j), for i and j in
\* different clusters, restores every element's cluster and ID, every node's
\* data pointer and every entry of PTR_NODES.
SwapTwiceRestores == SwappedTwice => Mem = trail[1].before

\* swap(i, j); swap(i, j) after an earlier swap, the state between the two
\* calls differing from the state before them
SwapTwiceWitness ==
  /\ SwappedTwice
  /\ calls >= 3
  /\ trail[2].before # trail[1].before

\* C6  Handle and membership consistency: after the set-up and after any
\* sequence of swaps, the ID of every element record is its index,
\* PTR_NODES[e]->data is the record of element e, the node PTR_NODES[e] is in
\* the list of cluster c exactly for c = the cluster of e, and every element
\* is the data of exactly one node of the lists.
HandleConsistency ==
  pc = "init_objective" =>
    /\ \A e \in 0..(n - 1) : POINTS[e].ID = e
    /\ \A e \in 0..(n - 1) : nodes[PTR_NODES[e]].data = e
    /\ \A e \in 0..(n - 1), c \in 0..(k - 1) :
         (\E x \in 1..Len(After(nodes, HEADS[c])) : After(nodes, HEADS[c])[x] = PTR_NODES[e])
           <=> c = POINTS[e].cluster
    /\ \A e \in 0..(n - 1) :
         Cardinality({p \in (0..(k - 1)) \X (1..n) :
                        /\ p[2] <= Len(After(nodes, HEADS[p[1]]))
                        /\ nodes[After(nodes, HEADS[p[1]])[p[2]]].data = e}) = 1

\* swaps were made and elements have changed clusters
HandleConsistencyWitness ==
  /\ pc = "init_objective"
  /\ calls >= 2
  /\ Labels(Mem) # input.clusters

\* a call of malloc has returned NULL
AllocationFailed == failAt # 0 /\ nmalloc >= failAt

\* C7  Allocation failure: once a malloc of the call has failed, the exchange
\* loop does not run and `clusters` keeps its input values.
OutOfMemoryPropagates ==
  AllocationFailed =>
    /\ pc \notin {"outer", "inner", "undo", "free"}
    /\ caller.clusters = input.clusters

\* C8  Call-scoped memory: when the call returns, every block it allocated
\* has been freed, once, and no null or never-assigned pointer was freed or
\* dereferenced.
CallScopedMemory ==
  pc = "returned" => heap.live = {} /\ heap.events = {}

\* C9  Caller-buffer frame: the call changes none of the caller's data, N, M,
\* K, frequencies, C, cat_frequencies and categories.
CallerFrame ==
  /\ caller.data = input.data
  /\ caller.N = input.N
  /\ caller.M = input.M
  /\ caller.K = input.K
  /\ caller.frequencies = input.frequencies
  /\ caller.USE_CATS = input.USE_CATS
  /\ caller.C = input.C
  /\ caller.CAT_frequencies = input.CAT_frequencies
  /\ caller.categories = input.categories

\* the labelling lab with the labels of a and b exchanged
Exchanged(lab, a, b) == [lab EXCEPT ![a] = lab[b], ![b] = lab[a]]

\* no exchange of two elements of different clusters (and, with categories,
\* of the same category) has a strictly larger objective
LocalOptimum(lab) ==
  \A a \in DOMAIN lab, b \in DOMAIN lab :
    (/\ lab[a] # lab[b]
     /\ input.USE_CATS = 1 => input.categories[a] = input.categories[b])
    => Objective(Exchanged(lab, a, b)) <= Objective(lab)

\* C10  Idempotence at a local optimum: when no admissible exchange improves
\* the input assignment, no swap is committed and the output is the input.
IdempotentAtLocalOptimum ==
  LocalOptimum(input.clusters) =>
    /\ log = <<>>
    /\ OutputWritten => caller.clusters = input.clusters

\* the outer loop counter moves only from i to i + 1, at the end of the
\* iteration of element i
OuterStep == i' = i \/ (i' = i + 1 /\ pc = "inner" /\ pc' = "outer")

\* the iterations done are those of elements 0..i-1; the committed swaps are
\* of distinct elements in increasing order, one at most for each iteration
\* done; the output is written after the iteration of element N-1
OnePass ==
  /\ i \in 0..n
  /\ pc \in {"inner", "undo"} => i < n
  /\ \A x \in 1..Len(log) :
       /\ log[x].element < i
       /\ x > 1 => log[x - 1].element < log[x].element
  /\ OutputWritten => i = n

\* C11  Single-pass termination: every call reaches the writing of the
\* output, after exactly N outer iterations that visit the elements 0..N-1
\* in increasing order, each once, with at most one committed swap for each;
\* the pass is not repeated.
SinglePassTermination ==
  /\ []OnePass
  /\ [][OuterStep]_vars
  /\ <>OutputWritten


\* C12  Diversity on four points: for N = 4, K = 2, the distances of the
\* points 0, 10, 11, 21 and clusters = [0,0,1,1], the objective of the
\* assignment that distance_anticlustering returns is 22.
DiversityScenario ==
  (input = DiversityOnFourPoints /\ OutputWritten) => Objective(caller.clusters) = 22

\* the call of the scenario has returned, after a committed swap
DiversityScenarioWitness ==
  /\ input = DiversityOnFourPoints
  /\ pc = "returned"
  /\ Len(log) > 0
  /\ caller.clusters # input.clusters

\* the mean of the feature of the elements labelled c, in units of
\* 1/Scale(N), for one feature
MeanOf(lab, c) ==
  SumOver(input.data, {e \in DOMAIN lab : lab[e] = c}) \div Count(lab, c)

\* C13 as stated  Variance on a line: for the features 0..5 and clusters
\* [0,0,0,1,1,1], after the pass both cluster centroids are 2.5.
VarianceScenario ==
  (input = VarianceOnALine /\ OutputWritten) =>
     \A c \in 0..1 : 2 * MeanOf(caller.clusters, c) = 5 * Scale(6)

\* C13  Variance on a line, amended: for the features 0..5 and clusters
\* [0,0,0,1,1,1], after the pass the clusters are interleaved with the
\* centroids 7/3 and 8/3 (cluster sums 7 and 8: no three of the integers
\* 0..5 have the mean 2.5), and the objective is 52/3, up from 4.
VarianceScenarioAmended ==
  (input = VarianceOnALine /\ OutputWritten) =>
     /\ {3 * MeanOf(caller.clusters, c) : c \in 0..1} = {7 * Scale(6), 8 * Scale(6)}
     /\ 3 * Objective(caller.clusters) = 52 * Scale(6) * Scale(6)
     /\ Objective(input.clusters) = 4 * Scale(6) * Scale(6)

\* the call of the scenario has returned, after a committed swap
VarianceScenarioWitness ==
  /\ input = VarianceOnALine
  /\ pc = "returned"
  /\ Len(log) > 0
  /\ caller.clusters # input.clusters

\* the call is the one of the category scenario
IsCategoryCall ==
  /\ variant = "diversity"
  /\ input.USE_CATS = 1
  /\ input.clusters = Array(<<0, 0, 0, 1, 1, 1>>)
  /\ input.categories = Array(<<0, 0, 1, 1, 2, 2>>)

ColumnMajorDecoding ==
  /\ variant = "variance" =>
       /\ \A e \in 0..(n - 1) :
            POINTS[e].values # EmptyArray =>
              \A j \in 0..(m - 1) : POINTS[e].values[j] = input.data[j * n + e]
       /\ (pc = "fill_data_points" /\ idx > 0) =>
            \A j \in 0..(m - 1) : offsets[j] = j * n + idx /\ offsets[j] \in 0..(n * m - 1)
  /\ (variant = "diversity" /\ offsets # EmptyArray) =>
       /\ \A r \in 0..(n - 1), c \in 0..(n - 1) : distances[r][c] = input.data[c * n + r]
       /\ \A j \in 0..(n - 1) : offsets[j] = j * n + n /\ offsets[j] - 1 \in 0..(n * n - 1)

\* a call with two features and several elements has read all its data
ColumnMajorDecodingWitness ==
  /\ variant = "variance"
  /\ m >= 2
  /\ n >= 2
  /\ pc = "outer"
  /\ \A e \in 0..(n - 1) : POINTS[e].values # EmptyArray

\* the exchange partner of round v of the current element
PartnerOf(v) == IF variant = "variance" THEN v ELSE C_HEADS[category_i][v]

\* the rounds of the current element whose partner is in another cluster
AdmissibleRounds == {v \in 0..(n_partners - 1) : ClusterOf(PartnerOf(v)) # ClusterOf(i)}

\* the objective the loop body computes for the exchange of i and j
TentativeObjective(j) ==
  LET cl2 == ClusterOf(j)
      st1 == swap(Mem, i, j)
      centers == IF variant = "variance"
                   THEN update_centers(m, CENTERS, Mem, PTR_NODES[i], PTR_NODES[j],
                                       caller.frequencies)
                   ELSE tmp_centers
      objs == IF variant = "variance"
                THEN update_objective_by_cluster(st1, m, centers, ClusterOf(i), cl2, HEADS,
                                                 OBJ_BY_CLUSTER)
                ELSE tmp_objs_diversity(Mem, st1, j, cl2)
  IN array_sum(k, objs)

\* the first round that attains the largest tentative objective
FirstBestRound ==
  CHOOSE v \in AdmissibleRounds :
    /\ \A w \in AdmissibleRounds :
         TentativeObjective(PartnerOf(w)) <= TentativeObjective(PartnerOf(v))
    /\ \A w \in AdmissibleRounds :
         w < v => TentativeObjective(PartnerOf(w)) < TentativeObjective(PartnerOf(v))

\* the inner loop of the current element is through
PartnersTried == pc = "inner" /\ i < n /\ u >= n_partners

\* C16  Best-partner selection: when all partners of element i have been
\* tried, the commit test succeeds if and only if the largest tentative
\* objective over the admissible partners is greater than the tracked
\* objective, and the partner committed is the first one that attains it.
BestPartnerSelection ==
  PartnersTried =>
    /\ accepts(best_obj, SUM_OBJECTIVE) <=>
         /\ AdmissibleRounds # {}
         /\ TentativeObjective(PartnerOf(FirstBestRound)) > SUM_OBJECTIVE
    /\ accepts(best_obj, SUM_OBJECTIVE) => best_partner = PartnerOf(FirstBestRound)

\* the iteration of element i - 1 has just ended without a commit
Rejected ==
  /\ pc = "outer"
  /\ i > 0
  /\ log = <<>> \/ log[Len(log)].element # i - 1

\* C17  Rejected element leaves state unchanged: when the iteration of an
\* element ends without a commit, the cluster labels, the nodes' data
\* pointers, PTR_NODES, the objectives by cluster, the centroids and the
\* tracked objective are what they were when the iteration began.
RejectedLeavesState == Rejected => Live = start

\* an element was rejected after an exchange that filled the best buffers
RejectedLeavesStateWitness ==
  /\ Rejected
  /\ last # <<>>
  /\ last.kind = "undo"
  /\ last.outer = i - 1
  /\ best_objs # OBJ_BY_CLUSTER

\* a tentative exchange of distance_anticlustering has just been made
TentativelySwapped == variant = "diversity" /\ pc = "undo"

\* C18  Diversity incremental update agrees with full recompute: after the
\* subtract / swap / add sequence of a tentative exchange of i and j, the
\* tmp_objs of their two clusters are what distances_within gives on the
\* swapped lists, and the tmp_objs of every other cluster is the cached one.
IncrementalDiversity ==
  TentativelySwapped =>
    \A c \in 0..(k - 1) :
      IF c \in {ClusterOf(last.i), ClusterOf(last.j)}
        THEN tmp_objs[c] = distances_within(Mem, distances, HEADS[c])
        ELSE tmp_objs[c] = OBJ_BY_CLUSTER[c]

\* a tentative exchange of c_anticlustering has just been made
TentativelyExchanged == variant = "variance" /\ pc = "undo"

\* C19  Variance incremental update agrees with full recompute: after a
\* tentative exchange of i and j, the tmp_centers of their two clusters are
\* the means compute_center gives on the swapped lists, the centroids of the
\* other clusters are the live ones, and the tmp_objectives of the two
\* clusters are the sums of squared distances of the new members to these
\* centroids.
IncrementalVariance ==
  TentativelyExchanged =>
    \A c \in 0..(k - 1) :
      IF c \in {ClusterOf(last.i), ClusterOf(last.j)}
        THEN /\ tmp_centers[c] = compute_center(Mem, m, HEADS[c], caller.frequencies[c])
             /\ tmp_objs[c] = cluster_variance(Mem, m, HEADS[c],
                                   compute_center(Mem, m, HEADS[c], caller.frequencies[c]))
        ELSE tmp_centers[c] = CENTERS[c]

\* the same for clusters of one size only
IncrementalVarianceEqualSizes ==
  (\A c \in 0..(k - 1), d \in 0..(k - 1) : caller.frequencies[c] = caller.frequencies[d])
    => IncrementalVariance

\* the cluster and the category of element e on the lists st
ClusterIn(st, e) == st.POINTS[st.nodes[st.PTR_NODES[e]].data].cluster
CategoryIn(st, e) == st.POINTS[st.nodes[st.PTR_NODES[e]].data].category

\* C20  Admissible swaps only: every call of swap made by the exchange loop
\* has two different elements of 0..N-1, the first being the element of the
\* outer loop; at a tentative swap they are in different clusters; with
\* use_cats = 1 they have the same category; with use_cats = 0 the partners
\* tried for an element are 0, 1, ..., N-1 in this order.
AdmissibleSwaps ==
  /\ last # <<>> =>
       /\ last.i = last.outer
       /\ last.j \in 0..(n - 1)
       /\ last.i # last.j
       /\ last.kind = "tentative" =>
            ClusterIn(last.before, last.i) # ClusterIn(last.before, last.j)
       /\ (variant = "diversity" /\ input.USE_CATS # 0) =>
            CategoryIn(last.before, last.i) = CategoryIn(last.before, last.j)
  /\ (pc \in {"inner", "undo"} /\ input.USE_CATS = 0) =>
       /\ n_partners = n
       /\ \A v \in 0..(n - 1) : PartnerOf(v) = v

\* the commit test of the current element succeeds
CommitTaken == PartnersTried /\ accepts(best_obj, SUM_OBJECTIVE)

\* some exchange of the current element was better than the reset value of
\* best_obj, so that best_partner was assigned in its inner loop
AssignedInIteration ==
  \E v \in AdmissibleRounds : improves(TentativeObjective(PartnerOf(v)), 0)

\* C21  Commit uses a partner evaluated in the same iteration: whenever the
\* commit test succeeds for element i, best_partner was assigned in the inner
\* loop of i, it is a partner tried for i, and best_obj is the tentative
\* objective of the exchange of i with it, for distances of any sign.
CommitUsesOwnPartner ==
  CommitTaken =>
    /\ AssignedInIteration
    /\ best_partner # Uninit
    /\ \E v \in AdmissibleRounds : best_partner = PartnerOf(v)
    /\ best_partner \in 0..(n - 1) => best_obj = TentativeObjective(best_partner)

\* C22  Node allocation bounds: every cluster head and membership node made
\* by initialize_cluster_heads and append_element_to_cluster is allocated
\* with at least the size of a node, so that the writes to its `data` and
\* `next` fields stay inside the block.
NodeAllocationBounds == \A p \in DOMAIN heap.sizes : heap.sizes[p] >= sizeof_node

====
